---- MODULE Spec2Model ----
(***************************************************************************)
(* A model of the chat-gipity client core (src/src/chatgpt.rs) and of the  *)
(* part of main (src/src/main.rs) that feeds the transcript.               *)
(*                                                                         *)
(* Three specifications share the variables:                               *)
(*   Spec        one invocation of the tool: the transcript of a freshly   *)
(*               constructed GptClient, main's stdin and session appends,  *)
(*               add_message, to_yaml and complete;                        *)
(*   SpecConfig  the configuration API (ensure_config_file, setup_config,  *)
(*               load_config, set_config_value, get_config_value, new)     *)
(*               against one configuration directory;                      *)
(*   SpecRace    two processes running set_config_value against the same   *)
(*               configuration path, one file-system call per step.        *)
(*                                                                         *)
(* Strings are sequences of characters, so that trim is computed.          *)
(***************************************************************************)
EXTENDS Naturals, Sequences, FiniteSets

VARIABLES
    messages,    \* GptClient.messages: the transcript, a sequence of Message
    config,      \* GptClient.config: the in-memory AppConfig
    fs,          \* <config_directory>/config.toml on disk
    pc,          \* position of the invocation (Spec, SpecConfig)
    op,          \* the operation performed last
    arg,         \* its input
    ret,         \* its return value, or the panic that ended it
    rpc,         \* SpecRace: position of each process inside set_config_value
    rkey,        \* SpecRace: each process's key argument
    rval,        \* SpecRace: each process's value argument
    rlocal,      \* SpecRace: each process's local `config` (line 171)
    concurrent   \* SpecRace: did the two calls overlap in time

vars == <<messages, config, fs, pc, op, arg, ret, rpc, rkey, rval, rlocal, concurrent>>

(***************************************************************************)
(* Bounds                                                                  *)
(***************************************************************************)
MaxTurns == 4       \* the transcript is followed up to this many turns
MaxPiped == 2       \* turns in a piped-in transcript or a stored session
MaxChoices == 2     \* choices in a success response

(***************************************************************************)
(* Strings                                                                 *)
(***************************************************************************)
\* The sample of strings inputs are drawn from: empty, plain, with leading
\* and with trailing white space.
Strings == { <<>>, <<"a">>, <<" ", "a">>, <<"b", " ">> }

RECURSIVE trim_start(_)
trim_start(s) ==
    IF s = <<>> THEN <<>>
    ELSE IF Head(s) = " " THEN trim_start(Tail(s)) ELSE s

RECURSIVE trim_end(_)
trim_end(s) ==
    IF s = <<>> THEN <<>>
    ELSE IF s[Len(s)] = " " THEN trim_end(SubSeq(s, 1, Len(s) - 1)) ELSE s

\* str::trim
trim(s) == trim_end(trim_start(s))

(***************************************************************************)
(* Role and Message                                                        *)
(***************************************************************************)
Role == {"System", "User", "Assistant"}

\* impl FromStr for Role
from_str(s) ==
    CASE s = "system"    -> [ok |-> TRUE,  role |-> "System"]
      [] s = "user"      -> [ok |-> TRUE,  role |-> "User"]
      [] s = "assistant" -> [ok |-> TRUE,  role |-> "Assistant"]
      [] OTHER           -> [ok |-> FALSE, role |-> "Invalid role"]

\* impl fmt::Display for Role
to_string(r) ==
    CASE r = "System"    -> "system"
      [] r = "User"      -> "user"
      [] r = "Assistant" -> "assistant"

\* the role strings a piped-in or stored turn may carry: the three valid
\* ones and a case variant, which from_str rejects
RoleStrings == {"system", "user", "assistant", "User"}

Message(r, c) == [role |-> r, content |-> c]

\* the system prompt GptClient::new formats, white space around it
system_prompt == <<" ", "s", " ">>

\* add_message putting the turn in front (insert(0, ..) for push)
add_message_prepends(msgs, role, text) ==
    <<Message(to_string(role), trim(text))>> \o msgs

\* GptClient::add_message
add_message(msgs, role, text) ==
    Append(msgs, Message(to_string(role), trim(text)))

(***************************************************************************)
(* The structured transcript text (YAML).  A text is a sequence of lines;  *)
(* a line is an optional "- " item marker, a key and a scalar value.       *)
(***************************************************************************)
Line(d, k, v) == [dash |-> d, key |-> k, val |-> v]

\* str::to_lowercase, on the role strings of the model
to_lowercase(s) ==
    CASE s = "User"      -> "user"
      [] s = "System"    -> "system"
      [] s = "Assistant" -> "assistant"
      [] OTHER           -> s

\* a serializer that emits the items last to first
RECURSIVE yaml_to_string_reversed(_)
yaml_to_string_reversed(msgs) ==
    IF msgs = <<>> THEN <<>>
    ELSE yaml_to_string_reversed(Tail(msgs))
         \o << Line(TRUE, "role", <<Head(msgs).role>>),
               Line(FALSE, "content", Head(msgs).content) >>

\* serde_yaml::to_string(&Vec<Message>): one item per message, fields in
\* the order of the struct
RECURSIVE yaml_to_string(_)
yaml_to_string(msgs) ==
    IF msgs = <<>> THEN <<>>
    ELSE << Line(TRUE, "role", <<Head(msgs).role>>),
            Line(FALSE, "content", Head(msgs).content) >>
         \o yaml_to_string(Tail(msgs))

\* GptClient::to_yaml
to_yaml(msgs, exclude_system) ==
    LET keep(m) == to_lowercase(m.role) # "system"
        filtered_messages ==
            IF exclude_system THEN SelectSeq(msgs, keep) ELSE msgs
    IN  yaml_to_string(filtered_messages)

\* serde_yaml::from_str::<Vec<Message>>: every item opens with a marked line
\* and holds exactly the keys role and content, in either order
RECURSIVE yaml_from_str(_)
yaml_from_str(text) ==
    IF text = <<>> THEN [ok |-> TRUE, items |-> <<>>]
    ELSE IF Len(text) < 2 THEN [ok |-> FALSE, items |-> <<>>]
    ELSE LET a == text[1]
             b == text[2]
             shape == /\ a.dash /\ ~b.dash
                      /\ {a.key, b.key} = {"role", "content"}
             r == IF a.key = "role" THEN a ELSE b
             c == IF a.key = "role" THEN b ELSE a
             rest == yaml_from_str(SubSeq(text, 3, Len(text)))
         IN  IF shape /\ Len(r.val) = 1 /\ rest.ok
             THEN [ok |-> TRUE,
                   items |-> <<Message(r.val[1], c.val)>> \o rest.items]
             ELSE [ok |-> FALSE, items |-> <<>>]

\* utils::is_valid_yaml: true iff the text parses as a structured transcript
is_valid_yaml(text) == yaml_from_str(text).ok

\* the characters of a text, as main hands a free-form text to add_message
RECURSIVE text_chars(_)
text_chars(text) ==
    IF text = <<>> THEN <<>>
    ELSE LET l == Head(text)
         IN  (IF l.dash THEN <<"-", " ">> ELSE <<>>)
             \o (IF l.key = "" THEN <<>> ELSE <<l.key, ":", " ">>)
             \o l.val
             \o text_chars(Tail(text))

\* main's loops over decoded and stored turns (main.rs 30-33 and 45-48):
\* each turn's role is parsed and the turn appended; an invalid role panics
\* after the turns before it were appended
RECURSIVE add_all(_, _)
add_all(msgs, items) ==
    IF items = <<>> THEN [ok |-> TRUE, messages |-> msgs]
    ELSE LET r == from_str(Head(items).role)
         IN  IF ~r.ok THEN [ok |-> FALSE, messages |-> msgs]
             ELSE add_all(add_message(msgs, r.role, Head(items).content),
                          Tail(items))

SeqsUpTo(S, n) == UNION { [1..k -> S] : k \in 0..n }

\* the role/content pairs of a text, in order
Pairs(text) == yaml_from_str(text).items

\* a well-formed text of the given turns, every item written role first or
\* every item written content first
RECURSIVE ItemsText(_, _)
ItemsText(items, role_first) ==
    IF items = <<>> THEN <<>>
    ELSE LET m == Head(items)
         IN  (IF role_first
              THEN << Line(TRUE, "role", <<m.role>>),
                      Line(FALSE, "content", m.content) >>
              ELSE << Line(TRUE, "content", m.content),
                      Line(FALSE, "role", <<m.role>>) >>)
             \o ItemsText(Tail(items), role_first)

\* the contents piped-in and stored turns are drawn from
PipedStrings == { <<"a">>, <<" ", "b", " ">> }
PipedTurns == { Message(r, c) : r \in RoleStrings, c \in PipedStrings }

\* the texts standard input may hold: nothing, a well-formed transcript,
\* free-form text, and a transcript item cut short
WellFormedTexts ==
    { ItemsText(s, f) :
        s \in SeqsUpTo(PipedTurns, MaxPiped) \ {<<>>}, f \in BOOLEAN }
PlainTexts == { <<Line(FALSE, "", s)>> : s \in Strings \ {<<>>} }
CutTexts == { <<Line(TRUE, "role", <<"user">>)>> }
StdinTexts == {<<>>} \cup WellFormedTexts \cup PlainTexts \cup CutTexts

(***************************************************************************)
(* The completion API's response bodies (JSON objects, as records)         *)
(***************************************************************************)
Choice(c) ==
    [message |-> Message("assistant", c), finish_reason |-> <<"stop">>, index |-> 0]

Usage == [prompt_tokens |-> 0, completion_tokens |-> 0, total_tokens |-> 0]

SuccessBody(contents) ==
    [id |-> <<"id">>, object |-> <<"chat.completion">>, created |-> 0,
     model |-> <<"gpt-4">>, usage |-> Usage,
     choices |-> [i \in 1..Len(contents) |-> Choice(contents[i])]]

ErrorBody(m) == [error |-> [message |-> m]]

\* a success body that also carries an error object
MixedBody(contents, m) ==
    [id |-> <<"id">>, object |-> <<"chat.completion">>, created |-> 0,
     model |-> <<"gpt-4">>, usage |-> Usage,
     choices |-> [i \in 1..Len(contents) |-> Choice(contents[i])],
     error |-> [message |-> m]]

\* a success body cut short: no usage
PartialBody(contents) ==
    [id |-> <<"id">>, object |-> <<"chat.completion">>, created |-> 0,
     model |-> <<"gpt-4">>,
     choices |-> [i \in 1..Len(contents) |-> Choice(contents[i])]]

\* a body that is no JSON object of either schema
RawBody(t) == [raw |-> t]

ErrorMessages == { <<"rate limit exceeded">> }

SuccessBodies == { SuccessBody(cs) : cs \in SeqsUpTo(Strings, MaxChoices) }
ErrorBodies == { ErrorBody(m) : m \in ErrorMessages }
OtherBodies ==
    { RawBody(<<"Bad Gateway">>), PartialBody(<<>>), PartialBody(<<(<<"a">>)>>) }
    \cup { MixedBody(<<(<<" ", "a">>)>>, m) : m \in ErrorMessages }
Bodies == SuccessBodies \cup ErrorBodies \cup OtherBodies

\* struct ChatResponse: the fields serde requires
ChatResponseFields == {"id", "object", "created", "model", "usage", "choices"}

\* parse_response: serde_json::from_str::<ChatResponse>
parse_response(body) ==
    IF ChatResponseFields \subseteq DOMAIN body
    THEN [ok |-> TRUE, choices |-> body.choices, err |-> <<>>]
    ELSE [ok |-> FALSE, choices |-> <<>>, err |-> <<"missing field">>]

\* parse_error_response: serde_json::from_str::<ErrorResponse>
parse_error_response(body) ==
    IF "error" \in DOMAIN body /\ "message" \in DOMAIN body.error
    THEN [ok |-> TRUE, message |-> body.error.message]
    ELSE [ok |-> FALSE, message |-> <<>>]

\* what one call of complete meets: the environment, the transport and the
\* response body
NoBody == RawBody(<<>>)
CompleteInput(k, t, b) == [api_key |-> k, transport |-> t, body |-> b]
CompleteInputs ==
    { CompleteInput("missing", "none", NoBody),
      CompleteInput("bad_header", "none", NoBody),
      CompleteInput("set", "send_err", NoBody),
      CompleteInput("set", "text_err", NoBody) }
    \cup { CompleteInput("set", "ok", b) : b \in Bodies }

Ok(v) == [kind |-> "ok", val |-> v]
Panic(v) == [kind |-> "panic", val |-> v]
Result(msgs, r) == [messages |-> msgs, ret |-> r]

\* complete taking the last choice for the first
complete_last_choice(msgs, inp) ==
    LET response_object == parse_response(inp.body)
    IN  IF inp.api_key = "set" /\ inp.transport = "ok" /\ response_object.ok
           /\ Len(response_object.choices) > 0
        THEN LET result ==
                   response_object.choices[Len(response_object.choices)].message.content
             IN  Result(add_message(msgs, "Assistant", result), Ok(result))
        ELSE Result(msgs, Panic(<<"panic">>))

\* complete appending the reply before it has checked the response
complete_appends_first(msgs, inp) ==
    LET response_object == parse_response(inp.body)
        reply == IF "choices" \in DOMAIN inp.body /\ Len(inp.body.choices) > 0
                 THEN inp.body.choices[1].message.content ELSE <<>>
        added == add_message(msgs, "Assistant", reply)
    IN  IF inp.api_key = "set" /\ inp.transport = "ok" /\ response_object.ok
           /\ Len(response_object.choices) > 0
        THEN Result(added, Ok(reply))
        ELSE Result(added, Panic(<<"panic">>))

\* GptClient::complete
complete(msgs, inp) ==
    IF inp.api_key = "missing"
    THEN Result(msgs, Panic(<<"Missing OPENAI_API_KEY environment variable">>))
    ELSE IF inp.api_key = "bad_header"
    THEN Result(msgs, Panic(<<"Error while assigning auth header">>))
    ELSE IF inp.transport = "send_err"
    THEN Result(msgs, Panic(<<"Error in response">>))
    ELSE IF inp.transport = "text_err"
    THEN Result(msgs, Panic(<<"Error in response text">>))
    ELSE LET response_object == parse_response(inp.body)
             error_response == parse_error_response(inp.body)
         IN  IF ~response_object.ok
             THEN IF error_response.ok
                  THEN Result(msgs, Panic(<<"Error while parsing response object">>
                                          \o error_response.message))
                  ELSE Result(msgs, Panic(<<"Error while parsing response object">>
                                          \o response_object.err))
             ELSE IF Len(response_object.choices) = 0
             THEN Result(msgs, Panic(<<"index out of bounds">>))
             ELSE LET result == response_object.choices[1].message.content
                  IN  Result(add_message(msgs, "Assistant", result), Ok(result))

(***************************************************************************)
(* AppConfig and the configuration file (TOML)                             *)
(***************************************************************************)
BoolKeys == {"show_progress", "show_context", "markdown"}
Keys == {"model"} \cup BoolKeys

\* a Default with another model name
AppConfig_default_gpt35 ==
    [model |-> "gpt-3.5-turbo", show_progress |-> FALSE,
     show_context |-> FALSE, markdown |-> FALSE]

\* impl Default for AppConfig
AppConfig_default ==
    [model |-> "gpt-4", show_progress |-> FALSE,
     show_context |-> FALSE, markdown |-> FALSE]

\* a TOML value: its type and its text; Absent where the key is not in the file
TomlValue(t, s) == [t |-> t, s |-> s]
Absent == TomlValue("absent", "")

\* the file at <dir>/config.toml: whether it exists, whether it is TOML at
\* all, and the value it gives each key of AppConfig (other keys are ignored
\* by the deserializer)
File(d) == [exists |-> TRUE, parses |-> TRUE, doc |-> d]
EmptyDoc == [k \in Keys |-> Absent]
NoFile == [exists |-> FALSE, parses |-> FALSE, doc |-> EmptyDoc]
GarbledFile == [exists |-> TRUE, parses |-> FALSE, doc |-> EmptyDoc]
EmptyFile == File(EmptyDoc)

\* bool's Display
bool_to_string(b) == IF b THEN "true" ELSE "false"

\* str::parse::<bool>: exactly "true" and "false"
parse_bool(s) ==
    CASE s = "true"  -> [ok |-> TRUE,  val |-> TRUE]
      [] s = "false" -> [ok |-> TRUE,  val |-> FALSE]
      [] OTHER       -> [ok |-> FALSE, val |-> FALSE]

\* a serializer that skips the markdown field
toml_to_string_drops_markdown(cfg) ==
    [k \in Keys |->
        CASE k = "model"    -> TomlValue("string", cfg.model)
          [] k = "markdown" -> Absent
          [] OTHER          -> TomlValue("boolean", bool_to_string(cfg[k]))]

\* toml::to_string(&AppConfig): every field, with its type
toml_to_string(cfg) ==
    [k \in Keys |->
        IF k = "model" THEN TomlValue("string", cfg.model)
        ELSE TomlValue("boolean", bool_to_string(cfg[k]))]

\* config::Value::into_string, the deserializer's conversion for a String field
into_string(v) ==
    IF v.t \in {"string", "boolean", "integer"}
    THEN [ok |-> TRUE, val |-> v.s]
    ELSE [ok |-> FALSE, val |-> ""]

\* config::Value::into_bool, the deserializer's conversion for a bool field
into_bool(v) ==
    CASE v.t = "boolean" -> [ok |-> TRUE, val |-> (v.s = "true")]
      [] v.t = "integer" -> [ok |-> TRUE, val |-> (v.s # "0")]
      [] v.t = "string" /\ v.s \in {"1", "true", "on", "yes"}
                         -> [ok |-> TRUE, val |-> TRUE]
      [] v.t = "string" /\ v.s \in {"0", "false", "off", "no"}
                         -> [ok |-> TRUE, val |-> FALSE]
      [] OTHER           -> [ok |-> FALSE, val |-> FALSE]

\* load_config building from the defaults alone
load_config_ignores_file(f) ==
    IF ~f.exists THEN Panic(<<"configuration file not found">>)
    ELSE Ok(AppConfig_default)

\* GptClient::load_config: the file's values laid over the defaults, then
\* deserialized into AppConfig.  The file source is required, so a missing
\* or unparseable file fails build(), and unwrap panics.
load_config(f) ==
    IF ~f.exists THEN Panic(<<"configuration file not found">>)
    ELSE IF ~f.parses THEN Panic(<<"configuration file does not parse">>)
    ELSE LET defaults == toml_to_string(AppConfig_default)
             merged == [k \in Keys |->
                          IF f.doc[k] = Absent THEN defaults[k] ELSE f.doc[k]]
             model == into_string(merged["model"])
             flag == [k \in BoolKeys |-> into_bool(merged[k])]
         IN  IF model.ok /\ \A k \in BoolKeys : flag[k].ok
             THEN Ok([model |-> model.val,
                      show_progress |-> flag["show_progress"].val,
                      show_context |-> flag["show_context"].val,
                      markdown |-> flag["markdown"].val])
             ELSE Panic(<<"Failed to deserialize config">>)

\* where the one I/O failure of a call happens, if any
EnsureFaults == {"none", "create_dir_all", "ensure_create", "ensure_write"}
IoFaults == EnsureFaults \cup {"create", "write"}

Err(v) == [kind |-> "err", val |-> v]
FsResult(f, r) == [fs |-> f, ret |-> r]

\* ensure_config_file without the exists() guard
ensure_config_file_overwrites(f, io) ==
    IF io = "none" THEN FsResult(File(toml_to_string(AppConfig_default)),
                                 Ok(<<"config.toml">>))
    ELSE FsResult(f, Err(<<io>>))

\* ensure_config_file
ensure_config_file(f, io) ==
    IF io = "create_dir_all" THEN FsResult(f, Err(<<io>>))
    ELSE IF ~f.exists
    THEN IF io = "ensure_create" THEN FsResult(f, Err(<<io>>))
         ELSE IF io = "ensure_write" THEN FsResult(EmptyFile, Err(<<io>>))
         ELSE FsResult(File(toml_to_string(AppConfig_default)),
                       Ok(<<"config.toml">>))
    ELSE FsResult(f, Ok(<<"config.toml">>))

\* the match applied to AppConfig::default() instead of the loaded config
apply_key_on_defaults(cfg, key, value) ==
    IF key = "model" THEN Ok([AppConfig_default EXCEPT !.model = value])
    ELSE IF key \in BoolKeys
    THEN IF parse_bool(value).ok
         THEN Ok([AppConfig_default EXCEPT ![key] = parse_bool(value).val])
         ELSE Panic(<<"Invalid value for ", key>>)
    ELSE Ok(AppConfig_default)

\* the match of set_config_value (lines 177-187) on the loaded config
apply_key(cfg, key, value) ==
    IF key = "model" THEN Ok([cfg EXCEPT !.model = value])
    ELSE IF key \in BoolKeys
    THEN IF parse_bool(value).ok
         THEN Ok([cfg EXCEPT ![key] = parse_bool(value).val])
         ELSE Panic(<<"Invalid value for ", key>>)
    ELSE Ok(cfg)

\* GptClient::set_config_value, on the file system; self.config is not
\* assigned anywhere in it.  After ensure_config_file succeeds the directory
\* exists, so line 172 is the branch taken.
set_config_value(f, key, value, io) ==
    LET ensured == ensure_config_file(f, io)
        loaded == load_config(ensured.fs)
        applied == apply_key(loaded.val, key, value)
    IN  IF ensured.ret.kind # "ok"
        THEN FsResult(ensured.fs, Panic(<<"Failed to ensure config file exists">>))
        ELSE IF loaded.kind # "ok" THEN FsResult(ensured.fs, loaded)
        ELSE IF applied.kind # "ok" THEN FsResult(ensured.fs, applied)
        ELSE IF io = "create"
        THEN FsResult(ensured.fs, Panic(<<"Failed to create config file">>))
        ELSE IF io = "write"
        THEN FsResult(EmptyFile, Panic(<<"Failed to write to config file">>))
        ELSE FsResult(File(toml_to_string(applied.val)), Ok(<<>>))

\* GptClient::get_config_value
get_config_value(cfg, key) ==
    CASE key = "model" -> cfg.model
      [] key \in BoolKeys -> bool_to_string(cfg[key])
      [] OTHER -> "Invalid configuration key"

(***************************************************************************)
(* Construction                                                            *)
(***************************************************************************)
\* GptClient::new: setup_config, load_config, and the transcript of one
\* System turn holding the trimmed prompt
new(f, io) ==
    LET ensured == ensure_config_file(f, io)
        loaded == load_config(ensured.fs)
    IN  [fs |-> ensured.fs,
         ret |-> IF ensured.ret.kind # "ok"
                 THEN Panic(<<"Failed to ensure config file exists">>)
                 ELSE IF loaded.kind # "ok" THEN loaded ELSE Ok(<<>>),
         config |-> IF ensured.ret.kind = "ok" /\ loaded.kind = "ok"
                    THEN loaded.val ELSE AppConfig_default,
         messages |-> <<Message(to_lowercase(to_string("System")),
                                trim(system_prompt))>>]

Procs == {1, 2}
Other(p) == IF p = 1 THEN 2 ELSE 1

\* the race variables at rest
RaceIdle ==
    /\ rpc = [p \in Procs |-> "idle"]
    /\ rkey = [p \in Procs |-> ""]
    /\ rval = [p \in Procs |-> ""]
    /\ rlocal = [p \in Procs |-> AppConfig_default]
    /\ concurrent = FALSE

raceVars == <<rpc, rkey, rval, rlocal, concurrent>>
configVars == <<config, fs>>

(***************************************************************************)
(* Spec: one invocation, from the constructed client on                    *)
(***************************************************************************)
\* main.rs 20: the client constructed over a fresh configuration directory
Init ==
    LET client == new(NoFile, "none")
    IN  /\ messages = client.messages
        /\ config = client.config
        /\ fs = client.fs
        /\ pc = "stdin"
        /\ op = "new"
        /\ arg = <<>>
        /\ ret = client.ret
        /\ RaceIdle

StepResult(ok, msgs) == [ok |-> ok, messages |-> msgs]

\* main.rs 26-37: standard input, a transcript or free-form text
read_stdin(msgs, stdin_text) ==
    IF stdin_text = <<>> THEN StepResult(TRUE, msgs)
    ELSE IF is_valid_yaml(stdin_text)
    THEN add_all(msgs, yaml_from_str(stdin_text).items)
    ELSE StepResult(TRUE, add_message(msgs, "User", text_chars(stdin_text)))

Stdin(stdin_text) ==
    /\ pc = "stdin"
    /\ LET r == read_stdin(messages, stdin_text)
       IN  /\ messages' = r.messages
           /\ pc' = IF r.ok THEN "session" ELSE "aborted"
           /\ ret' = IF r.ok THEN Ok(<<>>) ELSE Panic(<<"could not convert role">>)
    /\ op' = "stdin"
    /\ arg' = stdin_text
    /\ UNCHANGED <<configVars, raceVars>>

\* main.rs 44-48: the turns the session store holds for this terminal
Session(tty_context) ==
    /\ pc = "session"
    /\ Len(messages) + Len(tty_context) <= MaxTurns
    /\ LET r == add_all(messages, tty_context)
       IN  /\ messages' = r.messages
           /\ pc' = IF r.ok THEN "chat" ELSE "aborted"
           /\ ret' = IF r.ok THEN Ok(<<>>) ELSE Panic(<<"could not convert role">>)
    /\ op' = "session"
    /\ arg' = tty_context
    /\ UNCHANGED <<configVars, raceVars>>

\* GptClient::add_message, called on the client (main.rs 58, 69 and the
\* chat loop)
AddMessage(role, text) ==
    /\ pc = "chat"
    /\ Len(messages) < MaxTurns
    /\ messages' = add_message(messages, role, text)
    /\ op' = "add_message"
    /\ arg' = <<role, text>>
    /\ ret' = Ok(<<>>)
    /\ UNCHANGED <<pc, configVars, raceVars>>

\* GptClient::to_yaml
ToYaml(exclude_system) ==
    /\ pc \in {"session", "chat"}
    /\ op' = "to_yaml"
    /\ arg' = <<exclude_system>>
    /\ ret' = Ok(to_yaml(messages, exclude_system))
    /\ UNCHANGED <<messages, pc, configVars, raceVars>>

\* GptClient::complete; a panic ends the process
Complete(inp) ==
    /\ pc = "chat"
    /\ Len(messages) < MaxTurns
    /\ LET r == complete(messages, inp)
       IN  /\ messages' = r.messages
           /\ ret' = r.ret
           /\ pc' = IF r.ret.kind = "ok" THEN "chat" ELSE "aborted"
    /\ op' = "complete"
    /\ arg' = inp
    /\ UNCHANGED <<configVars, raceVars>>

Next ==
    \/ \E t \in StdinTexts : Stdin(t)
    \/ \E c \in SeqsUpTo(PipedTurns, MaxPiped) : Session(c)
    \/ \E r \in Role, t \in Strings : AddMessage(r, t)
    \/ \E x \in BOOLEAN : ToYaml(x)
    \/ \E i \in CompleteInputs : Complete(i)

Spec == Init /\ [][Next]_vars

(***************************************************************************)
(* SpecConfig: the configuration API against one configuration directory   *)
(***************************************************************************)
\* what a configuration file may hold when it was written by hand or by a
\* test: each key absent, of its own type, of another type the deserializer
\* converts, or of a type it cannot convert
ModelValues ==
    { Absent, TomlValue("string", "gpt-4"), TomlValue("string", "custom-model"),
      TomlValue("integer", "5"), TomlValue("array", "[]") }
ProgressValues ==
    { Absent, TomlValue("boolean", "true"), TomlValue("boolean", "false"),
      TomlValue("string", "on"), TomlValue("string", "banana") }
FlagValues == { Absent, TomlValue("boolean", "true") }
Docs ==
    { [k \in Keys |->
         CASE k = "model" -> m
           [] k = "show_progress" -> p
           [] k = "show_context" -> c
           [] k = "markdown" -> d] :
      m \in ModelValues, p \in ProgressValues, c \in FlagValues, d \in FlagValues }
FileContents == { File(d) : d \in Docs } \cup {GarbledFile}

\* the keys and raw values a caller may pass to set_config_value
KeyArgs == Keys \cup {"colour"}
ValueArgs == {"true", "false", "True", "gpt-3.5-turbo"}

\* the custom values of test_ensure_config_file
CustomConfig ==
    [model |-> "custom-model", show_progress |-> TRUE,
     show_context |-> TRUE, markdown |-> TRUE]

\* main.rs 20: the client constructed over a fresh directory, or over one
\* that holds custom values
InitConfig ==
    \E f \in {NoFile, File(toml_to_string(CustomConfig))} :
        LET client == new(f, "none")
        IN  /\ messages = client.messages
            /\ config = client.config
            /\ fs = client.fs
            /\ pc = "ready"
            /\ op = "new"
            /\ arg = [io |-> "none", existed |-> f.exists]
            /\ ret = client.ret
            /\ RaceIdle

\* ensure_config_file, called as the tests call it
EnsureConfigFile(io) ==
    /\ LET r == ensure_config_file(fs, io)
       IN  /\ fs' = r.fs
           /\ ret' = r.ret
    /\ op' = "ensure_config_file"
    /\ arg' = [io |-> io, existed |-> fs.exists]
    /\ UNCHANGED <<messages, config, pc, raceVars>>

\* GptClient::setup_config: ensure_config_file, panicking on Err
SetupConfig(io) ==
    /\ LET r == ensure_config_file(fs, io)
       IN  /\ fs' = r.fs
           /\ ret' = IF r.ret.kind = "ok" THEN Ok(<<>>)
                     ELSE Panic(<<"Failed to ensure config file exists">>)
           /\ pc' = IF r.ret.kind = "ok" THEN pc ELSE "aborted"
    /\ op' = "setup_config"
    /\ arg' = [io |-> io, existed |-> fs.exists]
    /\ UNCHANGED <<messages, config, raceVars>>

\* GptClient::load_config, called on the directory
LoadConfig ==
    /\ ret' = load_config(fs)
    /\ pc' = IF load_config(fs).kind = "ok" THEN pc ELSE "aborted"
    /\ op' = "load_config"
    /\ arg' = [io |-> "none", existed |-> fs.exists]
    /\ UNCHANGED <<messages, config, fs, raceVars>>

\* GptClient::set_config_value on the live client
SetConfigValue(key, value, io) ==
    /\ pc = "ready"
    /\ LET r == set_config_value(fs, key, value, io)
       IN  /\ fs' = r.fs
           /\ ret' = r.ret
           /\ pc' = IF r.ret.kind = "ok" THEN pc ELSE "aborted"
    /\ op' = "set_config_value"
    /\ arg' = [key |-> key, value |-> value, io |-> io]
    /\ UNCHANGED <<messages, config, raceVars>>

\* GptClient::get_config_value on the live client
GetConfigValue(key) ==
    /\ pc = "ready"
    /\ ret' = Ok(<<get_config_value(config, key)>>)
    /\ op' = "get_config_value"
    /\ arg' = [key |-> key, value |-> "", io |-> "none"]
    /\ UNCHANGED <<messages, config, fs, pc, raceVars>>

\* the file written from outside the client (File::create and write_all in
\* the tests, an editor in use)
WriteFile(f) ==
    /\ fs' = f
    /\ op' = "write_file"
    /\ arg' = [io |-> "none", existed |-> fs.exists]
    /\ ret' = Ok(<<>>)
    /\ UNCHANGED <<messages, config, pc, raceVars>>

\* the file removed from outside the client (fs::remove_file in the tests)
RemoveFile ==
    /\ fs.exists
    /\ fs' = NoFile
    /\ op' = "remove_file"
    /\ arg' = [io |-> "none", existed |-> TRUE]
    /\ ret' = Ok(<<>>)
    /\ UNCHANGED <<messages, config, pc, raceVars>>

NextConfig ==
    \/ \E io \in EnsureFaults : EnsureConfigFile(io)
    \/ \E io \in EnsureFaults : SetupConfig(io)
    \/ LoadConfig
    \/ \E k \in KeyArgs, v \in ValueArgs, io \in IoFaults : SetConfigValue(k, v, io)
    \/ \E k \in KeyArgs : GetConfigValue(k)
    \/ \E f \in FileContents : WriteFile(f)
    \/ RemoveFile

SpecConfig == InitConfig /\ [][NextConfig]_vars

(***************************************************************************)
(* SpecRace: two processes in set_config_value on the same path, one       *)
(* file-system call per step                                               *)
(***************************************************************************)
InitRace ==
    /\ fs \in {NoFile, File(toml_to_string(AppConfig_default)),
               File(toml_to_string(CustomConfig))}
    /\ messages = <<Message("system", trim(system_prompt))>>
    /\ config = AppConfig_default
    /\ pc = "ready"
    /\ op = "new"
    /\ arg = <<>>
    /\ ret = Ok(<<>>)
    /\ RaceIdle

clientVars == <<messages, config, pc, op, arg, ret>>

Running(p) == rpc[p] \notin {"idle", "done", "panicked"}

\* the process enters set_config_value(key, value); create_dir_all (line
\* 128) finds the directory or makes it
RaceCall(p, key, value) ==
    /\ rpc[p] = "idle"
    /\ rpc' = [rpc EXCEPT ![p] = "exists"]
    /\ rkey' = [rkey EXCEPT ![p] = key]
    /\ rval' = [rval EXCEPT ![p] = value]
    /\ concurrent' = (concurrent \/ Running(Other(p)))
    /\ UNCHANGED <<fs, rlocal, clientVars>>

\* line 130: config_path.exists()
RaceExists(p) ==
    /\ rpc[p] = "exists"
    /\ rpc' = [rpc EXCEPT ![p] = IF fs.exists THEN "load" ELSE "ensure_create"]
    /\ UNCHANGED <<fs, rkey, rval, rlocal, concurrent, clientVars>>

\* line 133: File::create makes the file or truncates it
RaceEnsureCreate(p) ==
    /\ rpc[p] = "ensure_create"
    /\ fs' = EmptyFile
    /\ rpc' = [rpc EXCEPT ![p] = "ensure_write"]
    /\ UNCHANGED <<rkey, rval, rlocal, concurrent, clientVars>>

\* write_all from offset 0 of this process's descriptor: over an empty file
\* the contents; over contents another process wrote since this one
\* truncated, the bytes of both, which are this process's contents or no
\* TOML at all
write_all(f, contents) ==
    IF f = EmptyFile THEN { File(contents) }
    ELSE { File(contents), GarbledFile }

\* line 134: the default contents written
RaceEnsureWrite(p) ==
    /\ rpc[p] = "ensure_write"
    /\ fs' \in write_all(fs, toml_to_string(AppConfig_default))
    /\ rpc' = [rpc EXCEPT ![p] = "load"]
    /\ UNCHANGED <<rkey, rval, rlocal, concurrent, clientVars>>

\* line 172: load_config reads the file as it is now
RaceLoad(p) ==
    /\ rpc[p] = "load"
    /\ LET loaded == load_config(fs)
       IN  IF loaded.kind = "ok"
           THEN /\ rlocal' = [rlocal EXCEPT ![p] = loaded.val]
                /\ rpc' = [rpc EXCEPT ![p] = "match"]
           ELSE /\ rpc' = [rpc EXCEPT ![p] = "panicked"]
                /\ UNCHANGED rlocal
    /\ UNCHANGED <<fs, rkey, rval, concurrent, clientVars>>

\* lines 177-189: the field changed in the local config
RaceMatch(p) ==
    /\ rpc[p] = "match"
    /\ LET applied == apply_key(rlocal[p], rkey[p], rval[p])
       IN  IF applied.kind = "ok"
           THEN /\ rlocal' = [rlocal EXCEPT ![p] = applied.val]
                /\ rpc' = [rpc EXCEPT ![p] = "create"]
           ELSE /\ rpc' = [rpc EXCEPT ![p] = "panicked"]
                /\ UNCHANGED rlocal
    /\ UNCHANGED <<fs, rkey, rval, concurrent, clientVars>>

\* line 190: File::create truncates the file
RaceCreate(p) ==
    /\ rpc[p] = "create"
    /\ fs' = EmptyFile
    /\ rpc' = [rpc EXCEPT ![p] = "write"]
    /\ UNCHANGED <<rkey, rval, rlocal, concurrent, clientVars>>

\* line 191: the whole local config written
RaceWrite(p) ==
    /\ rpc[p] = "write"
    /\ fs' \in write_all(fs, toml_to_string(rlocal[p]))
    /\ rpc' = [rpc EXCEPT ![p] = "done"]
    /\ UNCHANGED <<rkey, rval, rlocal, concurrent, clientVars>>

NextRace ==
    \/ \E p \in Procs, k \in KeyArgs, v \in ValueArgs : RaceCall(p, k, v)
    \/ \E p \in Procs : RaceExists(p)
    \/ \E p \in Procs : RaceEnsureCreate(p)
    \/ \E p \in Procs : RaceEnsureWrite(p)
    \/ \E p \in Procs : RaceLoad(p)
    \/ \E p \in Procs : RaceMatch(p)
    \/ \E p \in Procs : RaceCreate(p)
    \/ \E p \in Procs : RaceWrite(p)

SpecRace == InitRace /\ [][NextRace]_vars

(***************************************************************************)
(* Properties of the transcript (Spec)                                     *)
(***************************************************************************)
\* the success schema, as the API documents it
SuccessSchema(body) ==
    {"id", "object", "created", "model", "usage", "choices"} \subseteq DOMAIN body

\* the call received a body of the success schema with at least one choice
Answered(inp) ==
    /\ inp.api_key = "set"
    /\ inp.transport = "ok"
    /\ SuccessSchema(inp.body)
    /\ Len(inp.body.choices) > 0

\* C1 as stated: on a success body with a non-empty choices list, complete
\* returns the content of choices[0].message and appends exactly one
\* assistant turn whose content is that same returned string.
C1_AppendsReturnedString ==
    [][ (op' = "complete" /\ Answered(arg'))
        => /\ ret' = Ok(arg'.body.choices[1].message.content)
           /\ messages' = Append(messages, Message("assistant", ret'.val)) ]_vars

\* C1 amended: on a success body with a non-empty choices list, complete
\* returns the content of choices[0].message unchanged and appends exactly
\* one assistant turn whose content is the returned string trimmed of
\* leading and trailing white space; earlier turns are unchanged.
C1_AppendsTrimmedReply ==
    [][ (op' = "complete" /\ Answered(arg'))
        => /\ ret' = Ok(arg'.body.choices[1].message.content)
           /\ messages' = Append(messages, Message("assistant", trim(ret'.val)))
           /\ Len(messages') = Len(messages) + 1 ]_vars

\* a success with two choices whose first content carries white space
C1_Witness ==
    /\ op = "complete"
    /\ ret.kind = "ok"
    /\ Len(arg.body.choices) > 1
    /\ arg.body.choices[2].message.content # ret.val
    /\ trim(ret.val) # ret.val
    /\ messages[Len(messages)] = Message("assistant", trim(ret.val))

\* C2: every call of complete that is not answered by a success body with a
\* choice (credential missing or unusable, transport failure, error-schema
\* body, body of neither schema, empty choices) ends aborted and leaves the
\* transcript exactly as it was.
C2_FailureLeavesTranscript ==
    [][ (op' = "complete" /\ ~Answered(arg'))
        => /\ pc' = "aborted"
           /\ ret'.kind = "panic"
           /\ messages' = messages ]_vars

\* an error-schema body met with turns already accumulated
C2_Witness ==
    /\ op = "complete"
    /\ pc = "aborted"
    /\ arg.body \in ErrorBodies
    /\ ret.val = <<"Error while parsing response object", "rate limit exceeded">>
    /\ Len(messages) > 1

\* C3: the transcript is never empty, its first turn is the System turn of
\* construction, and every step keeps every existing turn at its index.
C3_AppendOnly ==
    /\ [](/\ Len(messages) >= 1
          /\ messages[1] = Message("system", <<"s">>))
    /\ [][ /\ Len(messages') >= Len(messages)
           /\ SubSeq(messages', 1, Len(messages)) = messages ]_vars

\* a reply appended behind a piped-in System turn
C3_Witness ==
    /\ op = "complete"
    /\ ret.kind = "ok"
    /\ Len(messages) >= 3
    /\ messages[2].role = "system"

\* the contents of a sequence of pairs, trimmed
Trimmed(pairs) ==
    [i \in 1..Len(pairs) |-> Message(pairs[i].role, trim(pairs[i].content))]

NotSystem(m) == m.role # "system"

\* a well-formed transcript text: it parses and every role is one of the three
WellFormed(text) ==
    /\ text # <<>>
    /\ yaml_from_str(text).ok
    /\ \A i \in 1..Len(Pairs(text)) :
          Pairs(text)[i].role \in {"system", "user", "assistant"}

\* C8 as stated: decoding a well-formed text into the conversation and
\* encoding the result (with or without System turns) gives back the pairs
\* of the text.
C8_RoundTripExact ==
    [][ (op' = "stdin" /\ WellFormed(arg'))
        => \E x \in BOOLEAN : Pairs(to_yaml(messages', x)) = Pairs(arg') ]_vars

\* C8 amended: decoding a well-formed text into the conversation and encoding
\* the result gives the turns the conversation already held (the System turn
\* of construction) followed by the pairs of the text in order, each content
\* trimmed; encoding with exclude_system gives those pairs without the ones
\* of role system.
C8_RoundTripTrimmed ==
    [][ (op' = "stdin" /\ WellFormed(arg'))
        => LET expected == messages \o Trimmed(Pairs(arg'))
           IN  /\ ret'.kind = "ok"
               /\ Pairs(to_yaml(messages', FALSE)) = expected
               /\ Pairs(to_yaml(messages', TRUE)) = SelectSeq(expected, NotSystem) ]_vars

\* two piped-in turns, content first in the text, one with white space
C8_Witness ==
    /\ op = "stdin"
    /\ ret.kind = "ok"
    /\ Len(messages) = 3
    /\ arg[1].key = "content"
    /\ \E i \in 1..Len(Pairs(arg)) :
          Pairs(arg)[i].content # trim(Pairs(arg)[i].content)
    /\ \E i \in 1..Len(Pairs(arg)) : Pairs(arg)[i].role = "system"

(***************************************************************************)
(* Properties of the configuration (SpecConfig)                            *)
(***************************************************************************)
\* the value set_config_value is asked to give a key, as the field's type
Typed(key, value) == IF key = "model" THEN value ELSE (value = "true")

\* C4: when the file loads before the call, a successful set_config_value of
\* a known key leaves a file that loads, with the named field equal to the
\* value set and every other field equal to what the load before returned.
C4_SetChangesOnlyNamedField ==
    [][ (/\ op' = "set_config_value"
         /\ ret'.kind = "ok"
         /\ arg'.key \in Keys
         /\ load_config(fs).kind = "ok")
        => load_config(fs') =
             Ok([load_config(fs).val EXCEPT ![arg'.key] = Typed(arg'.key, arg'.value)]) ]_vars

\* model set over a file whose other fields are not the defaults
C4_Witness ==
    /\ op = "set_config_value"
    /\ ret.kind = "ok"
    /\ arg.key = "model"
    /\ arg.value = "gpt-3.5-turbo"
    /\ load_config(fs) =
         Ok([CustomConfig EXCEPT !.model = "gpt-3.5-turbo"])

\* C5: ensure_config_file leaves an existing file exactly as it is, whatever
\* it holds; a successful call leaves a file in place; and a successful call
\* writes the default-valued file exactly when no file existed.
C5_EnsureIdempotent ==
    [][ op' = "ensure_config_file"
        => /\ fs.exists => fs' = fs
           /\ ret'.kind = "ok" => fs'.exists
           /\ (ret'.kind = "ok" /\ ~fs.exists)
                => fs' = File(toml_to_string(AppConfig_default))
           /\ (ret'.kind = "ok" /\ fs' # fs) => ~fs.exists ]_vars

\* a successful call over a file of unusual content, left as it was
C5_Witness ==
    /\ op = "ensure_config_file"
    /\ ret.kind = "ok"
    /\ arg.existed
    /\ fs.doc["model"] = TomlValue("integer", "5")
    /\ fs.doc["markdown"] = Absent

\* a value of the type its key has in AppConfig
RightType(key, v) ==
    IF key = "model" THEN v.t = "string" ELSE v.t = "boolean"

\* the value a TOML value of the right type denotes
Denoted(key, v) == IF key = "model" THEN v.s ELSE (v.s = "true")

\* C6 as stated: a parseable file always loads, and each field is the
\* file's value when the key is there with the right type, the default
\* when the key is absent or of the wrong type.
C6_WrongTypeFallsBack ==
    (op = "load_config" /\ fs.exists /\ fs.parses)
    => /\ ret.kind = "ok"
       /\ \A k \in Keys :
            ret.val[k] = IF RightType(k, fs.doc[k])
                         THEN Denoted(k, fs.doc[k])
                         ELSE AppConfig_default[k]

\* C6 amended: a parseable file in which every key is absent or of the
\* right type always loads, and each field is the file's value when the key
\* is there, the default (gpt-4 / false / false / false) when it is absent.
C6_AbsentFallsBack ==
    (/\ op = "load_config" /\ fs.exists /\ fs.parses
     /\ \A k \in Keys : fs.doc[k] = Absent \/ RightType(k, fs.doc[k]))
    => /\ ret.kind = "ok"
       /\ \A k \in Keys :
            ret.val[k] = IF fs.doc[k] = Absent
                         THEN (IF k = "model" THEN "gpt-4" ELSE FALSE)
                         ELSE Denoted(k, fs.doc[k])

\* the file of test_custom_config_with_missing: only show_progress = true
C6_Witness ==
    /\ op = "load_config"
    /\ fs = File([EmptyDoc EXCEPT !["show_progress"] = TomlValue("boolean", "true")])
    /\ ret = Ok([model |-> "gpt-4", show_progress |-> TRUE,
                 show_context |-> FALSE, markdown |-> FALSE])

Defaults ==
    [model |-> "gpt-4", show_progress |-> FALSE,
     show_context |-> FALSE, markdown |-> FALSE]

C9_SetUpdatesMemory ==
    (op = "set_config_value" /\ ret.kind = "ok" /\ arg.key \in Keys)
    => /\ get_config_value(config, arg.key) = arg.value
       /\ load_config(fs) = Ok(config)

(***************************************************************************)
(* Properties of concurrent set_config_value (SpecRace)                    *)
(***************************************************************************)
\* the file holds process p's update
Holds(p) ==
    /\ load_config(fs).kind = "ok"
    /\ load_config(fs).val[rkey[p]] = Typed(rkey[p], rval[p])

BothDone == \A p \in Procs : rpc[p] = "done"

DifferentKeys == rkey[1] \in Keys /\ rkey[2] \in Keys /\ rkey[1] # rkey[2]

\* C10: when two calls that set different keys run one after the other and
\* both complete, the file holds both updates; an interleaving of the two
\* calls in which both complete and the file holds only one of the updates
\* is reachable (C10_Witness).
C10_SequentialKeepsBoth ==
    (BothDone /\ DifferentKeys /\ ~concurrent) => (Holds(1) /\ Holds(2))

\* both calls completed and the file holds the update of process 2 alone
C10_Witness ==
    /\ BothDone
    /\ DifferentKeys
    /\ concurrent
    /\ Holds(2)
    /\ ~Holds(1)

====
